---- MODULE Spec2Model ----
(***************************************************************************)
(* Diagonal-gate synthesis (qiskit/extensions/quantum_initializer/diag.py) *)
(* and the MS basis decomposer pass                                        *)
(* (qiskit/transpiler/passes/ms_basis_decomposer.py).                      *)
(*                                                                         *)
(* Numbers.  A diagonal entry z is a record                                *)
(*   [conv, unit, ulp, sx, sy]                                             *)
(* conv: complex(z) succeeds; its modulus is unit/2 + ulp * 1e-11 (a       *)
(* two-limb fixed-point number, ulp small); its direction is the compass   *)
(* point (sx, sy), sx, sy in {-1, 0, 1}.  Phase angles are fixed-point     *)
(* integers in units of pi / (4 * PhaseDen), PhaseDen a power of two large *)
(* enough that every halving of the reduction is exact.                    *)
(***************************************************************************)
EXTENDS Integers, Sequences, FiniteSets, TLC

\* ------------------------------------------------------------------ bounds
\* longest diagonal list offered to the constructor
MaxLen == 8
\* longest list whose entries range over every kind of entry (MixedEntries)
MaxMixedLen == 2
\* longest list offered to each of two interleaved invocations
ParMaxLen == 4
\* largest qubit list offered to diag_gate
MaxQubits == 3
\* longest basis list offered to MSBasisDecomposer
MaxBasisLen == 4
\* longest basis list (besides the target basis) of a decomposer that is run
MaxRunBasisLen == 2
\* most op nodes of a dag offered to MSBasisDecomposer.run
MaxDagLen == 3

Inv == {1, 2}

\* --------------------------------------------------------------- numbers
RECURSIVE Pow2(_)
Pow2(k) == IF k = 0 THEN 1 ELSE 2 * Pow2(k - 1)

\* floor(log2(m)) for m >= 1: int(np.log2(m)), and math.log2 when exact
RECURSIVE Log2Floor(_)
Log2Floor(m) == IF m < 2 THEN 0 ELSE 1 + Log2Floor(m \div 2)

\* math.log2(m).is_integer(), m >= 1
IsPow2(m) == m >= 1 /\ Pow2(Log2Floor(m)) = m

\* phase angles are counted in units of pi / (4 * PhaseDen)
PhaseDen == Pow2(Log2Floor(MaxLen) + 1)
Pi == 4 * PhaseDen

\* _EPS = 1e-10, in units of 1e-11
EpsUlps == 10

\* ---------------------------------------------------------------- entries
Entry(u, e, x, y) == [conv |-> TRUE, unit |-> u, ulp |-> e, sx |-> x, sy |-> y]

One == Entry(2, 0, 1, 0)
MinusOne == Entry(2, 0, -1, 0)
MinusJ == Entry(2, 0, 0, -1)
PlusJ == Entry(2, 0, 0, 1)
\* modulus 0.5, 0, 2
Half == Entry(1, 0, 1, 0)
Zero == Entry(0, 0, 0, 0)
Two == Entry(4, 0, -1, 1)
\* modulus 1 + 1e-10 (at the tolerance), 1 + 5e-11 (inside), 1 - 2e-10 (below)
AtTol == Entry(2, 10, 1, 1)
InsideTol == Entry(2, 5, -1, -1)
BelowTol == Entry(2, -20, 1, -1)
\* an object complex() cannot convert
NoneEntry == [conv |-> FALSE, unit |-> 0, ulp |-> 0, sx |-> 0, sy |-> 0]

UnitEntries == {One, MinusOne, MinusJ}
MixedEntries == UnitEntries \cup {PlusJ, Half, Zero, Two, AtTol, InsideTol, BelowTol, NoneEntry}
ParEntries == {One, MinusOne, MinusJ}

SeqsOf(S, len) == [1..len -> S]

\* the diagonal arguments offered: lists, and one tuple (not a list)
ListArgs(maxLen, maxMixed) ==
    {[kind |-> "list", items |-> s] :
        s \in (UNION {SeqsOf(UnitEntries, l) : l \in 0..maxLen})
              \cup (UNION {SeqsOf(MixedEntries, l) : l \in 0..maxMixed})}
TupleArg == [kind |-> "tuple", items |-> <<One, One>>]
DiagArgs == ListArgs(MaxLen, MaxMixedLen) \cup {TupleArg}
ParArgs == {[kind |-> "list", items |-> s] :
               s \in UNION {SeqsOf(ParEntries, l) : l \in 1..ParMaxLen}}

\* the qubit arguments offered: a register, a list, or a single qubit object
QubitArgs == {[kind |-> k, size |-> m] :
                 k \in {"QuantumRegister", "list"}, m \in 0..MaxQubits}
             \cup {[kind |-> "Qubit", size |-> 1]}
NoQubits == [kind |-> "none", size |-> 0]

\* np.abs(z): the modulus as (unit, ulp)
Abs(z) == [unit |-> z.unit, ulp |-> z.ulp]

\* np.abs(z) - 1 < _EPS, on the two-limb representation: the half-units
\* decide unless they are equal, then the 1e-11 units do
AbsMinusOneLtEps(z) ==
    LET a == Abs(z)
    IN  a.unit - 2 < 0 \/ (a.unit - 2 = 0 /\ a.ulp < EpsUlps)

\* cmath.phase(z) = atan2(im, re), in (-pi, pi]; atan2(0, 0) = 0
Phase(z) ==
    LET eighth == CASE z.sx = 1 /\ z.sy = 0 -> 0
                    [] z.sx = 1 /\ z.sy = 1 -> 1
                    [] z.sx = 0 /\ z.sy = 1 -> 2
                    [] z.sx = -1 /\ z.sy = 1 -> 3
                    [] z.sx = -1 /\ z.sy = 0 -> 4
                    [] z.sx = -1 /\ z.sy = -1 -> -3
                    [] z.sx = 0 /\ z.sy = -1 -> -2
                    [] z.sx = 1 /\ z.sy = -1 -> -1
                    [] OTHER -> 0
    IN  eighth * PhaseDen

\* ------------------------------------------------------------- validation
QiskitErrors == {"NotAList", "NotPowerOfTwo", "NotComplex", "NotAbsOne",
                 "QubitsNotAList", "QubitCountMismatch"}

\* the loop over the entries: the first entry that fails decides the error
RECURSIVE CheckEntries(_, _)
CheckEntries(items, idx) ==
    IF idx > Len(items) THEN "none"
    ELSE IF ~items[idx].conv THEN "NotComplex"
    ELSE IF ~AbsMinusOneLtEps(items[idx]) THEN "NotAbsOne"
    ELSE CheckEntries(items, idx + 1)

\* the length test with the is_integer() half forgotten
BadLengthNoInteger(len) == Log2Floor(len) < 1

\* the length test of the constructor
BadLength(len) == Log2Floor(len) < 1 \/ ~IsPow2(len)

\* DiagGate.__init__: the error it raises, "none" when it constructs the gate
Validate(diag) ==
    IF diag.kind # "list" THEN "NotAList"
    ELSE IF Len(diag.items) = 0 THEN "ValueError"
    ELSE IF BadLength(Len(diag.items)) THEN "NotPowerOfTwo"
    ELSE CheckEntries(diag.items, 1)

\* the qubit-count comparison left out
QubitsMatchAlways(nq, len) == TRUE

\* len(qubit) == math.log2(len(diag)), len(diag) >= 1
QubitsMatch(nq, len) == IsPow2(len) /\ nq = Log2Floor(len)

\* ------------------------------------------------------------- reduction
\* _extract_rz with the difference taken the wrong way round
extract_rz_swapped(phi1, phi2) ==
    [phase |-> (phi1 + phi2) \div 2, z_angle |-> phi1 - phi2]

\* _extract_rz with the halving of the merged phase forgotten
extract_rz_nohalf(phi1, phi2) ==
    [phase |-> phi1 + phi2, z_angle |-> phi2 - phi1]

\* _extract_rz(phi1, phi2) = (phase, z_angle)
extract_rz(phi1, phi2) ==
    [phase |-> (phi1 + phi2) \div 2, z_angle |-> phi2 - phi1]

\* the slice taken with its upper end included
SliceInclusive(lo, hi) == [m \in 1..(IF hi >= lo THEN hi - lo + 1 ELSE 0) |-> lo + m - 1]

\* q[lo:hi] of a register of num qubits (qubits are numbered from 0)
Slice(lo, hi) == [m \in 1..(IF hi > lo THEN hi - lo ELSE 0) |-> lo + m - 1]

\* the operands with the target counted from the other end of the register
UczInstructionReversed(angles, num_qubits, len) ==
    LET num_act_qubits == Log2Floor(len)
    IN  [angles |-> angles,
         controls |-> Slice(0, num_act_qubits - 1),
         target |-> num_act_qubits - 1]

\* the operands of circuit.ucz at a level of active length n
UczInstruction(angles, num_qubits, len) ==
    LET num_act_qubits == Log2Floor(len)
    IN  [angles |-> angles,
         controls |-> Slice(num_qubits - num_act_qubits + 1, num_qubits),
         target |-> num_qubits - num_act_qubits]

\* the instruction put in front of the circuit instead of at its end
UczPrepend(circ, inst) == <<inst>> \o circ

\* circuit.ucz(...): the instruction is appended to the circuit
Ucz(circ, inst) == Append(circ, inst)

\* the merged phase written at i instead of i // 2
MergedIndexNoHalve(idx) == idx

\* i // 2, where the merged phase of the pair (i, i + 1) is written
MergedIndex(idx) == idx \div 2

\* n -= 1 in place of n //= 2
HalveMinus(m) == m - 1

\* n //= 2
Halve(m) == m \div 2

\* one phase vector shared by every invocation (a module-level list)
SharedFrame(p) == 1

\* the frame that holds an invocation's locals (diag_phases, n, angles_rz, circuit)
Frame(p) == p

\* _dec_diag run as one sequential call: the for loop from index idx on ...
RECURSIVE ForLoop(_, _, _, _)
ForLoop(ph, len, idx, angles) ==
    IF idx >= len THEN [ph |-> ph, angles |-> angles, raised |-> FALSE]
    ELSE IF idx + 2 > Len(ph) THEN [ph |-> ph, angles |-> angles, raised |-> TRUE]
    ELSE LET r == extract_rz(ph[idx + 1], ph[idx + 2])
         IN  ForLoop([ph EXCEPT ![MergedIndex(idx) + 1] = r.phase], len, idx + 2,
                     Append(angles, r.z_angle))

\* ... the while loop from active length len on ...
RECURSIVE WhileLoop(_, _, _, _)
WhileLoop(ph, len, circ, num_qubits) ==
    IF len < 2 THEN circ
    ELSE LET f == ForLoop(ph, len, 0, <<>>)
         IN  IF f.raised THEN <<"IndexError">>
             ELSE WhileLoop(f.ph, Halve(len),
                            Ucz(circ, UczInstruction(f.angles, num_qubits, len)),
                            num_qubits)

\* ... and the whole call, from the gate's params to the returned circuit
dec_diag(prm) ==
    WhileLoop([m \in 1..Len(prm) |-> Phase(prm[m])], Len(prm), <<>>,
              Log2Floor(Len(prm)))

\* ------------------------------------------------------ MSBasisDecomposer
BasisNames == {"rx", "ry", "rxx", "ms", "u3"}
BasisArgs == UNION {SeqsOf(BasisNames, l) : l \in 0..MaxBasisLen}
SeqRange(s) == {s[m] : m \in 1..Len(s)}

\* Unroller(list(set(basis).union(['u3', 'cx'])))
Unroller(basis) == [pass |-> "Unroller", basis |-> SeqRange(basis) \cup {"u3", "cx"}]

\* the target basis the docstrings name
TargetBasis == <<"rx", "ry", "rxx", "ms">>
RunBasisArgs == (UNION {SeqsOf(BasisNames, l) : l \in 0..MaxRunBasisLen})
                \cup {TargetBasis}

supported_input_gates == {"U3Gate", "CnotGate"}
basic_insts == {"measure", "reset", "barrier", "snapshot"}

\* an op node: its name and the class of its op
OpNode(nm, cls) == [name |-> nm, op |-> cls]
OpNodes == {OpNode("u3", "U3Gate"), OpNode("cx", "CnotGate"), OpNode("rx", "RXGate"),
            OpNode("h", "HGate"), OpNode("measure", "Measure")}
DagArgs == UNION {SeqsOf(OpNodes, l) : l \in 0..MaxDagLen}

\* the basis test with the names never found
InBasisNever(nm, basis) == FALSE

\* node.name in self.basis
InBasis(nm, basis) == nm \in SeqRange(basis)

\* what run does with a node: skip it, raise, or substitute it
NodeRule(node, basis) ==
    IF node.name \in basic_insts THEN "continue"
    ELSE IF InBasis(node.name, basis) THEN "continue"
    ELSE IF node.op \notin supported_input_gates THEN "raise"
    ELSE IF node.op = "U3Gate" THEN "substitute"
    ELSE IF node.op = "CnotGate" THEN "substitute"
    ELSE "raise"

\* the circuit that replaces a node: one_q_decomposer(node.op) for a U3,
\* the cnot_rxx_decompose() circuit for a CX; as a dag in the node's place
ReplacementDag(node) ==
    [name |-> "dag",
     op |-> IF node.op = "U3Gate" THEN "one_q_decomposer" ELSE "cnot_decomposition"]

VARIABLES pc, arg, err, params, data, diag_phases, n, i, angles_rz, circuit,
          ms_pc, ms_basis, ms_requires, ms_err, ms_dag, ms_nodes, ms_idx

dvars == <<pc, arg, err, params, data, diag_phases, n, i, angles_rz, circuit>>
msvars == <<ms_pc, ms_basis, ms_requires, ms_err, ms_dag, ms_nodes, ms_idx>>
vars == <<dvars, msvars>>

NoArg == [op |-> "none", diag |-> [kind |-> "list", items |-> <<>>], qubit |-> NoQubits]

Init ==
    /\ pc = [p \in Inv |-> "idle"]
    /\ arg = [p \in Inv |-> NoArg]
    /\ err = [p \in Inv |-> "none"]
    /\ params = [p \in Inv |-> <<>>]
    /\ data = [p \in Inv |-> <<>>]
    /\ diag_phases = [p \in Inv |-> <<>>]
    /\ n = [p \in Inv |-> 0]
    /\ i = [p \in Inv |-> 0]
    /\ angles_rz = [p \in Inv |-> <<>>]
    /\ circuit = [p \in Inv |-> <<>>]
    /\ ms_pc = "idle"
    /\ ms_basis = <<>>
    /\ ms_requires = <<>>
    /\ ms_err = "none"
    /\ ms_dag = <<>>
    /\ ms_nodes = <<>>
    /\ ms_idx = 0

\* DiagGate(diag): validation, then the gate holds diag as its params
Construct(p, args) ==
    /\ pc[p] = "idle"
    /\ \E diag \in args :
        LET e == Validate(diag)
        IN  /\ arg' = [arg EXCEPT ![p] = [op |-> "DiagGate", diag |-> diag, qubit |-> NoQubits]]
            /\ err' = [err EXCEPT ![p] = e]
            /\ pc' = [pc EXCEPT ![p] = IF e = "none" THEN "gate" ELSE "raised"]
            /\ params' = [params EXCEPT ![p] = IF e = "none" THEN diag.items ELSE <<>>]
    /\ UNCHANGED <<data, diag_phases, n, i, angles_rz, circuit, msvars>>

\* circuit.diag_gate(diag, qubit)
diag_gate(p, args) ==
    /\ pc[p] = "idle"
    /\ \E diag \in args, qubit \in QubitArgs :
        LET e == IF qubit.kind \notin {"QuantumRegister", "list"} THEN "QubitsNotAList"
                 ELSE IF diag.kind # "list" THEN "NotAList"
                 ELSE IF Len(diag.items) = 0 THEN "ValueError"
                 ELSE IF ~QubitsMatch(qubit.size, Len(diag.items)) THEN "QubitCountMismatch"
                 ELSE Validate(diag)
        IN  /\ arg' = [arg EXCEPT ![p] = [op |-> "diag_gate", diag |-> diag, qubit |-> qubit]]
            /\ err' = [err EXCEPT ![p] = e]
            /\ pc' = [pc EXCEPT ![p] = IF e = "none" THEN "gate" ELSE "raised"]
            /\ params' = [params EXCEPT ![p] = IF e = "none" THEN diag.items ELSE <<>>]
            /\ data' = [data EXCEPT ![p] =
                          IF e = "none"
                          THEN Append(@, [name |-> "diag", params |-> diag.items,
                                          qargs |-> Slice(0, qubit.size)])
                          ELSE @]
    /\ UNCHANGED <<diag_phases, n, i, angles_rz, circuit, msvars>>

\* _dec_diag up to the first test of the while loop
DecStart(p) ==
    /\ pc[p] = "gate"
    /\ diag_phases' = [diag_phases EXCEPT ![Frame(p)] =
                          [m \in 1..Len(params[p]) |-> Phase(params[p][m])]]
    /\ n' = [n EXCEPT ![p] = Len(params[p])]
    /\ i' = [i EXCEPT ![p] = 0]
    /\ angles_rz' = [angles_rz EXCEPT ![p] = <<>>]
    /\ circuit' = [circuit EXCEPT ![p] = <<>>]
    /\ pc' = [pc EXCEPT ![p] = IF Len(params[p]) >= 2 THEN "for" ELSE "returned"]
    /\ UNCHANGED <<arg, err, params, data, msvars>>

\* one pass of the for loop body: the pair (i, i + 1) is merged in place
PairStep(p) ==
    /\ pc[p] = "for"
    /\ i[p] < n[p]
    /\ LET ph == diag_phases[Frame(p)]
       IN  IF i[p] + 2 > Len(ph)
           THEN /\ err' = [err EXCEPT ![p] = "IndexError"]
                /\ pc' = [pc EXCEPT ![p] = "raised"]
                /\ UNCHANGED <<diag_phases, i, angles_rz>>
           ELSE LET r == extract_rz(ph[i[p] + 1], ph[i[p] + 2])
                IN  /\ diag_phases' = [diag_phases EXCEPT
                                          ![Frame(p)][MergedIndex(i[p]) + 1] = r.phase]
                    /\ angles_rz' = [angles_rz EXCEPT ![p] = Append(@, r.z_angle)]
                    /\ i' = [i EXCEPT ![p] = @ + 2]
                    /\ UNCHANGED <<err, pc>>
    /\ UNCHANGED <<arg, params, data, n, circuit, msvars>>

\* the end of a level: the instruction is emitted, n is halved, the while
\* test is taken again
EmitLevel(p) ==
    /\ pc[p] = "for"
    /\ i[p] >= n[p]
    /\ circuit' = [circuit EXCEPT ![p] =
                      Ucz(@, UczInstruction(angles_rz[p], Log2Floor(Len(params[p])), n[p]))]
    /\ n' = [n EXCEPT ![p] = Halve(@)]
    /\ i' = [i EXCEPT ![p] = 0]
    /\ angles_rz' = [angles_rz EXCEPT ![p] = <<>>]
    /\ pc' = [pc EXCEPT ![p] = IF Halve(n[p]) >= 2 THEN "for" ELSE "returned"]
    /\ UNCHANGED <<arg, err, params, data, diag_phases, msvars>>

\* MSBasisDecomposer.__init__(basis), basis drawn from bases
MSInitFrom(bases) ==
    /\ ms_pc = "idle"
    /\ \E basis \in bases :
        /\ ms_basis' = basis
        /\ ms_requires' = <<Unroller(basis)>>
    /\ ms_pc' = "constructed"
    /\ UNCHANGED <<ms_err, ms_dag, ms_nodes, ms_idx, dvars>>

MSBasisDecomposer_init == MSInitFrom(BasisArgs)

MSInitRun == MSInitFrom(RunBasisArgs)

\* run(dag) up to the for loop: dag.op_nodes() is a list made once
MSRunStart ==
    /\ ms_pc = "constructed"
    /\ \E dag \in DagArgs :
        /\ ms_dag' = dag
        /\ ms_nodes' = dag
    /\ ms_idx' = 1
    /\ ms_pc' = "loop"
    /\ UNCHANGED <<ms_basis, ms_requires, ms_err, dvars>>

\* one pass of the for loop of run
MSRunNode ==
    /\ ms_pc = "loop"
    /\ ms_idx <= Len(ms_nodes)
    /\ LET node == ms_nodes[ms_idx]
           rule == NodeRule(node, ms_basis)
       IN  /\ ms_pc' = IF rule = "raise" THEN "raised" ELSE "loop"
           /\ ms_err' = IF rule = "raise" THEN "QiskitError" ELSE ms_err
           /\ ms_dag' = IF rule = "substitute"
                         THEN [ms_dag EXCEPT ![ms_idx] = ReplacementDag(node)]
                         ELSE ms_dag
           /\ ms_idx' = IF rule = "raise" THEN ms_idx ELSE ms_idx + 1
    /\ UNCHANGED <<ms_basis, ms_requires, ms_nodes, dvars>>

\* return dag
MSRunReturn ==
    /\ ms_pc = "loop"
    /\ ms_idx > Len(ms_nodes)
    /\ ms_pc' = "returned"
    /\ UNCHANGED <<ms_basis, ms_requires, ms_err, ms_dag, ms_nodes, ms_idx, dvars>>

\* one gate, constructed directly or through diag_gate, then decomposed
Next ==
    \/ Construct(1, DiagArgs)
    \/ diag_gate(1, DiagArgs)
    \/ DecStart(1)
    \/ PairStep(1)
    \/ EmitLevel(1)

Spec == Init /\ [][Next]_vars

\* one gate constructed directly, then decomposed; the loop of _dec_diag is
\* sequential code, so a step of it that can be taken is taken
NextDirect ==
    \/ Construct(1, DiagArgs)
    \/ DecStart(1)
    \/ PairStep(1)
    \/ EmitLevel(1)

FairSpec ==
    Init /\ [][NextDirect]_vars /\ WF_vars(PairStep(1)) /\ WF_vars(EmitLevel(1))

\* two gates decomposed with their steps interleaved
NextPar ==
    \E p \in Inv :
        \/ Construct(p, ParArgs)
        \/ DecStart(p)
        \/ PairStep(p)
        \/ EmitLevel(p)

SpecPar == Init /\ [][NextPar]_vars

\* the basis decomposer pass
NextMS == MSBasisDecomposer_init

SpecMS == Init /\ [][NextMS]_vars

\* the pass constructed, then run on a dag
NextMSRun ==
    \/ MSInitRun
    \/ MSRunStart
    \/ MSRunNode
    \/ MSRunReturn

SpecMSRun == Init /\ [][NextMSRun]_vars

\* ------------------------------------------------------------------ claims
\* bit q of basis index j (bit 0 is the first qubit)
Bit(j, q) == (j \div Pow2(q)) % 2

\* the control-bit pattern of basis state j for an instruction: the first
\* control is the least significant bit of the pattern
RECURSIVE Pattern(_, _, _)
Pattern(inst, j, m) ==
    IF m > Len(inst.controls) THEN 0
    ELSE Bit(j, inst.controls[m]) * Pow2(m - 1) + Pattern(inst, j, m + 1)

\* twice the phase a uniformly-controlled Rz gives basis state j:
\* Rz(theta) gives -theta/2 on target bit 0 and +theta/2 on target bit 1
TwiceRzPhase(inst, j) ==
    LET theta == inst.angles[Pattern(inst, j, 1) + 1]
    IN  IF Bit(j, inst.target) = 1 THEN theta ELSE 0 - theta

RECURSIVE TwiceCircuitPhase(_, _, _)
TwiceCircuitPhase(circ, j, m) ==
    IF m > Len(circ) THEN 0
    ELSE TwiceRzPhase(circ[m], j) + TwiceCircuitPhase(circ, j, m + 1)

\* twice (the original phase of basis state j minus what the circuit gives it)
TwiceResidual(j) ==
    2 * Phase(params[1][j + 1]) - TwiceCircuitPhase(circuit[1], j, 1)

\* C1: when _dec_diag has returned, every basis state j has its original
\* phase minus the phase the emitted rotations give it equal to one and the
\* same constant (the global phase).
C1_RoundTrip ==
    pc[1] = "returned" =>
        \A j \in 0..(Len(params[1]) - 1) : TwiceResidual(j) = TwiceResidual(0)

C1_Witness ==
    /\ pc[1] = "returned"
    /\ Len(params[1]) = 8
    /\ params[1][1] = One /\ params[1][2] = MinusJ /\ params[1][7] = MinusOne

\* the claims about validation speak of entries of modulus one, and of
\* entries whose modulus is not within 1e-10 of one
ModulusOne(z) == z.conv /\ z.unit = 2 /\ z.ulp = 0
WithinTolerance(z) == z.unit = 2 /\ z.ulp < EpsUlps /\ 0 - z.ulp < EpsUlps
Constructed(p) == arg[p].op = "DiagGate" /\ arg[p].diag.kind = "list"
ArgLen(p) == Len(arg[p].diag.items)
ArgItems(p) == arg[p].diag.items

\* C2: the constructor rejects with the structural error every list whose
\* length is below 2 or no power of two, and accepts every list of length
\* 2^k, k >= 1, whose entries all have modulus one.
C2_LengthValidation ==
    Constructed(1) =>
        /\ (ArgLen(1) < 2 \/ \A k \in 0..ArgLen(1) : Pow2(k) # ArgLen(1))
              => (pc[1] = "raised" /\ err[1] = "NotPowerOfTwo")
        /\ (/\ \E k \in 1..ArgLen(1) : Pow2(k) = ArgLen(1)
            /\ \A m \in 1..ArgLen(1) : ModulusOne(ArgItems(1)[m]))
              => (pc[1] # "raised" /\ err[1] = "none")

\* C3: the constructor rejects with the non-unitary-entry error every list
\* (of a valid length, of convertible entries) that holds an entry whose
\* modulus is not within 1e-10 of one.
C3_ModulusValidation ==
    (/\ Constructed(1)
     /\ \E k \in 1..ArgLen(1) : Pow2(k) = ArgLen(1)
     /\ \A m \in 1..ArgLen(1) : ArgItems(1)[m].conv
     /\ \E m \in 1..ArgLen(1) : ~WithinTolerance(ArgItems(1)[m]))
        => (pc[1] = "raised" /\ err[1] = "NotAbsOne")

C5_ErrorsAtValidation ==
    /\ err[1] # "none" =>
          /\ pc[1] = "raised"
          /\ err[1] \in QiskitErrors \cup {"ValueError"}
          /\ diag_phases[1] = <<>> /\ angles_rz[1] = <<>> /\ circuit[1] = <<>>
          /\ n[1] = 0 /\ i[1] = 0
    /\ pc[1] \in {"gate", "for", "returned"} =>
          /\ err[1] = "none"
          /\ Validate(arg[1].diag) = "none"
    /\ (pc[1] = "for" /\ i[1] < n[1]) => i[1] + 2 <= Len(diag_phases[1])

C5_Witness ==
    /\ pc[1] = "for" /\ i[1] = 6 /\ n[1] = 8
    /\ Len(angles_rz[1]) = 3
    /\ err[1] = "none"

\* C6 as stated: along the returned sequence the number of controls strictly
\* increases, from 0 in the first instruction to k-1 in the last.
C6_CoarsestFirst ==
    pc[1] = "returned" =>
        \A m \in 1..Len(circuit[1]) : Len(circuit[1][m].controls) = m - 1

\* C6 as amended: along the returned sequence the number of controls strictly
\* decreases, from k-1 in the first instruction to 0 in the last.
C6_FinestFirst ==
    pc[1] = "returned" =>
        /\ Len(circuit[1]) = Log2Floor(Len(params[1]))
        /\ \A m \in 1..Len(circuit[1]) :
              Len(circuit[1][m].controls) = Len(circuit[1]) - m

C6_Witness ==
    /\ pc[1] = "returned"
    /\ Len(circuit[1]) = 3
    /\ Len(circuit[1][1].controls) = 2
    /\ Len(circuit[1][3].controls) = 0

\* C7: once in the loop of _dec_diag, the invocation returns, and when it
\* has returned exactly k = log2(len) instructions have been emitted and n = 1.
C7_Terminates ==
    /\ [](pc[1] = "returned" =>
            (n[1] = 1 /\ Len(circuit[1]) = Log2Floor(Len(params[1]))
             /\ Pow2(Len(circuit[1])) = Len(params[1])))
    /\ (pc[1] = "for") ~> (pc[1] = "returned")

C7_Witness ==
    /\ pc[1] = "returned" /\ n[1] = 1
    /\ Len(params[1]) = 8 /\ Len(circuit[1]) = 3

CZ == <<One, One, One, MinusOne>>
OneControl(circ) == {m \in 1..Len(circ) : Len(circ[m].controls) = 1}

\* C8 as stated: for [1, 1, 1, -1] exactly one instruction has one control,
\* its angles are the pair differences 0 and pi, and every other instruction
\* has the single angle 0.
C8_RemainingZero ==
    (pc[1] = "returned" /\ params[1] = CZ) =>
        /\ Cardinality(OneControl(circuit[1])) = 1
        /\ \A m \in 1..Len(circuit[1]) :
              IF m \in OneControl(circuit[1])
              THEN circuit[1][m].angles = <<Phase(CZ[2]) - Phase(CZ[1]),
                                            Phase(CZ[4]) - Phase(CZ[3])>>
              ELSE circuit[1][m].angles = <<0>>

\* C8 as amended: for [1, 1, 1, -1] exactly one instruction has one control,
\* its angles are the pair differences 0 and pi, and the one remaining
\* instruction (no control) has the single angle pi/2, the difference of the
\* merged phases pi/2 and 0.
C8_RemainingHalfPi ==
    (pc[1] = "returned" /\ params[1] = CZ) =>
        /\ Cardinality(OneControl(circuit[1])) = 1
        /\ Len(circuit[1]) = 2
        /\ \A m \in 1..Len(circuit[1]) :
              IF m \in OneControl(circuit[1])
              THEN circuit[1][m].angles = <<0, Pi>>
              ELSE /\ circuit[1][m].controls = <<>>
                   /\ circuit[1][m].angles = <<Pi \div 2>>

C8_Witness ==
    /\ pc[1] = "returned" /\ params[1] = CZ
    /\ Len(circuit[1]) = 2

\* the control position of invocation p, and the data it owns
Control(p) == <<pc[p], n[p], i[p]>>
Owned(p) == <<diag_phases[p], angles_rz[p], circuit[p], params[p], err[p]>>

\* C9: with the steps of two invocations interleaved, a step that is not
\* invocation p's leaves p's phase vector, angle list, gate sequence and
\* stored diagonal alone, and p returns the sequence it returns when run alone.
C9_Independent ==
    /\ [](\A p \in Inv : pc[p] = "returned" => circuit[p] = dec_diag(params[p]))
    /\ [][\A p \in Inv : Control(p)' = Control(p) => Owned(p)' = Owned(p)]_vars

C9_Witness ==
    /\ pc[1] = "returned" /\ pc[2] = "for" /\ i[2] = 2 /\ n[2] = 4
    /\ Len(params[1]) = 4 /\ params[1] # params[2]
    /\ circuit[1] # <<>>

\* C10: constructing MSBasisDecomposer with a basis that is not
\* ['rx', 'ry', 'rxx', 'ms'] raises QiskitError.
C10_BasisRejected ==
    (ms_pc # "idle" /\ ms_basis # TargetBasis) =>
        (ms_pc = "raised" /\ ms_err = "QiskitError")

\* run has ended, by return or by raise
RunEnded == ms_pc \in {"returned", "raised"}
OutsideU3CX(node) == node.op \notin {"U3Gate", "CnotGate"}
Substituted(k) == ms_dag[k].name = "dag"

ToConvert(node) ==
    /\ node.name \notin {"measure", "reset", "barrier", "snapshot"}
    /\ \A m \in 1..Len(ms_basis) : ms_basis[m] # node.name

LevelAngles(v) == [m \in 1..(Len(v) \div 2) |-> v[2 * m] - v[2 * m - 1]]
NextLevel(v) == [m \in 1..(Len(v) \div 2) |-> (v[2 * m - 1] + v[2 * m]) \div 2]

\* the input vector of level l (l = 0 is the first level) for the params prm
RECURSIVE LevelInput(_, _)
LevelInput(prm, l) ==
    IF l = 0 THEN [m \in 1..Len(prm) |-> Phase(prm[m])]
    ELSE NextLevel(LevelInput(prm, l - 1))

InLoop(p) == pc[p] \in {"for", "returned"}

\* C12: the instruction of each level, whose input vector has length n,
\* carries n/2 angles and log2(n) - 1 controls, angle i being
\* phase[2i+1] - phase[2i] of that input vector in index order; and when a
\* level is complete the first n/2 positions of the phase vector hold the
\* means (phase[2i] + phase[2i+1]) / 2, the next level's input.
C12_LevelContents ==
    InLoop(1) =>
        /\ \A l \in 1..Len(circuit[1]) :
              LET v == LevelInput(params[1], l - 1)
              IN  /\ Len(circuit[1][l].angles) = Len(v) \div 2
                  /\ 2 * Len(circuit[1][l].angles) = Len(v)
                  /\ Len(circuit[1][l].controls) = Log2Floor(Len(v)) - 1
                  /\ \A m \in 1..(Len(v) \div 2) :
                        circuit[1][l].angles[m] = v[2 * m] - v[2 * m - 1]
        /\ (i[1] = 0) =>
              /\ n[1] = Len(LevelInput(params[1], Len(circuit[1])))
              /\ SubSeq(diag_phases[1], 1, n[1]) = LevelInput(params[1], Len(circuit[1]))

C12_Witness ==
    /\ pc[1] = "for" /\ i[1] = 0 /\ n[1] = 2
    /\ Len(params[1]) = 8 /\ Len(circuit[1]) = 2
    /\ diag_phases[1][1] # diag_phases[1][2]
    /\ circuit[1][2].angles[1] # circuit[1][2].angles[2]

\* C13 as stated: the level with n = 2^k targets the last qubit, each later
\* level the qubit of the next lower index, the level with n = 2 the first
\* qubit; the controls of a level are higher-order qubits than its target.
C13_TargetLastToFirst ==
    pc[1] = "returned" =>
        \A l \in 1..Len(circuit[1]) :
            /\ circuit[1][l].target = Len(circuit[1]) - l
            /\ \A m \in 1..Len(circuit[1][l].controls) :
                  circuit[1][l].controls[m] > circuit[1][l].target

\* C13 as amended: the level with n = 2^k targets the first qubit, each later
\* level the qubit of the next higher index, the level with n = 2 the last
\* qubit; the controls of a level are all the higher-order qubits, those of
\* index above its target, in index order.
C13_TargetFirstToLast ==
    pc[1] = "returned" =>
        \A l \in 1..Len(circuit[1]) :
            /\ circuit[1][l].target = l - 1
            /\ Len(circuit[1][l].controls) = Len(circuit[1]) - l
            /\ \A m \in 1..Len(circuit[1][l].controls) :
                  circuit[1][l].controls[m] = circuit[1][l].target + m

C13_Witness ==
    /\ pc[1] = "returned"
    /\ Len(circuit[1]) = 3
    /\ circuit[1][1].target = 0 /\ circuit[1][1].controls = <<1, 2>>
    /\ circuit[1][3].target = 2 /\ circuit[1][3].controls = <<>>

\* C14: in the middle of a level, with the pairs below index i merged in
\* place, every entry a later pair of the level still reads (positions i..n-1)
\* is the entry of the level's input vector, the angles recorded so far are
\* those the two-buffer reduction records, and the positions written so far
\* (0..i/2 - 1) hold the two-buffer reduction's next-level phases.
C14_InPlaceIsTwoBuffer ==
    pc[1] = "for" =>
        LET v == LevelInput(params[1], Len(circuit[1]))
        IN  /\ Len(v) = n[1]
            /\ \A m \in (i[1] + 1)..n[1] : diag_phases[1][m] = v[m]
            /\ angles_rz[1] = SubSeq(LevelAngles(v), 1, i[1] \div 2)
            /\ SubSeq(diag_phases[1], 1, i[1] \div 2) = SubSeq(NextLevel(v), 1, i[1] \div 2)

C14_Witness ==
    /\ pc[1] = "for" /\ n[1] = 4 /\ i[1] = 2
    /\ Len(params[1]) = 8
    /\ diag_phases[1][1] # LevelInput(params[1], 1)[1]
    /\ diag_phases[1][3] # diag_phases[1][4]

====
